---- MODULE Spec2Model ----
(***************************************************************************)
(* Model of the session-scoped analysis engine of datalens-ai:             *)
(*   backend/app/services/data_service.py  (DataService: the registry,     *)
(*                                          profiling, the exec sandbox)   *)
(*   backend/app/services/ai_service.py    (AIService: reply parsing and   *)
(*                                          the query pipeline)            *)
(*   backend/app/api/routes.py             (the handlers that call both)   *)
(*   backend/app/models/schemas.py         (the validated response types)  *)
(*                                                                         *)
(* The handlers are coroutines of one event loop.  None of them awaits     *)
(* between its first and last access of the registry (the model client     *)
(* call at ai_service.py:129 is a blocking call, not an await), so a       *)
(* handler runs from start to finish before the next one starts.  pc       *)
(* records where the running handler is: "idle" (no handler running),      *)
(* "calling" (AIService.query is blocked in the model call) and "done"     *)
(* (the handler has produced its outcome, held in ret).                    *)
(***************************************************************************)
EXTENDS Integers, Sequences, FiniteSets, TLC

VARIABLES
    sessions,   \* DataService._sessions : session id -> DataFrame
    metadata,   \* DataService._metadata : session id -> metadata dict
    pc,         \* position of the running handler
    pending,    \* frame of AIService.query while the model call is outstanding
    ret,        \* outcome of the handler that ran last
    deleted,    \* history: ids deleted and not stored since
    trace,      \* history: what the running handler got from its collaborators
    arg         \* history: the dataset or column a profiling call was given

vars == <<sessions, metadata, pc, pending, ret, deleted, trace, arg>>

----------------------------------------------------------------------------
(* Bounds of the model.                                                     *)

\* Longest reply text of the model, in tokens.
MaxReplyLen == 3
\* Most statements of a generated snippet before its final statement.
MaxOps == 1

\* Most missing cells of a profiled column, and most values of it that occur
\* once, twice and three times.
MaxNulls == 2
MaxOnce == 21
MaxTwice == 2
MaxThrice == 1
\* Most columns and rows of a profiled dataset.
MaxCols == 2
MaxRows == 3

SessionIds == {"s1", "s2"}
Bits == {0, 1}
Questions == {"", "mean of x?"}
ElapsedMs == {0, 12}

----------------------------------------------------------------------------
(* Text.  A text is a sequence of non-empty fragments; the empty text is    *)
(* the empty sequence, and concatenation is \o.  An f-string is the         *)
(* sequence of its literal parts and its formatted fields.                  *)

IsEmptyText(t) == Len(t) = 0
Contains(t, frag) == \E i \in 1..Len(t) : t[i] = frag

----------------------------------------------------------------------------
(* Python values, as far as the handlers look at them.  ty is the runtime   *)
(* type, elem the type of a list's elements, keys the type of a dict's (or  *)
(* of the element dicts') keys, text the content of a str.                  *)

PyVal(ty, elem, keys, text) == [ty |-> ty, elem |-> elem, keys |-> keys, text |-> text]
PyNone == PyVal("NoneType", "-", "-", <<>>)
PyStr(t) == PyVal("str", "-", "-", t)
PyInt == PyVal("int", "-", "-", <<>>)
PyDict(keys) == PyVal("dict", "-", keys, <<>>)
PyList(elem, keys) == PyVal("list", elem, keys, <<>>)
PyTuple == PyVal("tuple", "-", "-", <<>>)
PyFrame(labels) == PyVal("DataFrame", "-", labels, <<>>)
PySeries(index) == PyVal("Series", "-", index, <<>>)

\* An exception: its class and str(e).
Exc(cls, msg) == [cls |-> cls, msg |-> msg]
NoExc == Exc("none", <<>>)

----------------------------------------------------------------------------
(* DataFrames.  A frame is abstracted to what the handlers can observe or   *)
(* change: the type of its column labels, one cell of a numeric column,     *)
(* and the cells of an object column.  An object cell holds a reference to  *)
(* a mutable Python object (a list decoded from nested JSON); obj is the    *)
(* sequence of the referenced objects' contents, empty when the frame has   *)
(* no object column.                                                        *)

DataFrames == [labels : {"str", "int"}, num : Bits, obj : {<<>>} \cup {<<b>> : b \in Bits}]
HasObj(df) == Len(df.obj) > 0

\* schemas.py: class FileType
FileType == {"csv", "excel", "json", "parquet", "tsv"}

\* Path(filename).suffix.lower()
Filenames == {"sales.csv", "events.json", "notes.txt"}
Suffix(filename) ==
    CASE filename = "sales.csv" -> ".csv"
      [] filename = "events.json" -> ".json"
      [] OTHER -> ".txt"

\* config.py: Settings.allowed_extensions and Settings.max_file_size_mb
allowed_extensions == {".csv", ".xlsx", ".xls", ".json", ".parquet", ".tsv"}
max_file_size_mb == 50
SizesMb == {1, 51}

\* DataService.detect_file_type: the mapping, ValueError for any other suffix.
detect_file_type(filename) ==
    LET ext == Suffix(filename)
        mapping == [e \in allowed_extensions |->
                      CASE e = ".csv" -> "csv"
                        [] e \in {".xlsx", ".xls"} -> "excel"
                        [] e = ".json" -> "json"
                        [] e = ".parquet" -> "parquet"
                        [] OTHER -> "tsv"]
    IN  IF ext \notin DOMAIN mapping
        THEN [exc |-> Exc("ValueError", <<"Unsupported file type: ", ext>>), value |-> "csv"]
        ELSE [exc |-> NoExc, value |-> mapping[ext]]

(* The decoded content of an uploaded file.  A delimited-text file decodes  *)
(* to string labels and scalar cells; a JSON file may decode to integer     *)
(* labels (an array of arrays) and to cells holding lists (nested arrays).  *)
(* A file the decoder rejects has decodable = FALSE.                        *)
Contents == [decodable : BOOLEAN, df : {d \in DataFrames : d.num = 0 /\ d.obj # <<1>>}]
DecodesTo(file_type, content) ==
    file_type = "csv" => content.df.labels = "str" /\ ~HasObj(content.df)

\* DataService.load_file: the loader of the file type, applied to the file.
load_file(content, file_type) ==
    IF file_type \notin FileType
    THEN [exc |-> Exc("ValueError", <<"No loader for file type: ", file_type>>), value |-> content.df]
    ELSE IF ~content.decodable
    THEN [exc |-> Exc("ParserError", <<"Error tokenizing data">>), value |-> content.df]
    ELSE [exc |-> NoExc, value |-> content.df]

----------------------------------------------------------------------------
(* Dataset registry: DataService._sessions and DataService._metadata.       *)

Put(f, k, v) == [x \in DOMAIN f \cup {k} |-> IF x = k THEN v ELSE f[x]]
Del(f, k) == [x \in DOMAIN f \ {k} |-> f[x]]

Registry(ss, md) == [sessions |-> ss, metadata |-> md]

\* DataService.store_session
store_session(reg, session_id, df, md) ==
    Registry(Put(reg.sessions, session_id, df), Put(reg.metadata, session_id, md))

\* DataService.get_session / get_metadata: dict.get, None when absent.
Absent == [present |-> FALSE]
Present(v) == [present |-> TRUE, value |-> v]
get_session(reg, session_id) ==
    IF session_id \in DOMAIN reg.sessions THEN Present(reg.sessions[session_id]) ELSE Absent
get_metadata(reg, session_id) ==
    IF session_id \in DOMAIN reg.metadata THEN Present(reg.metadata[session_id]) ELSE Absent

\* A delete that forgets the metadata entry.
delete_session_keeps_metadata(reg, session_id) ==
    IF session_id \in DOMAIN reg.sessions
    THEN [reg |-> Registry(Del(reg.sessions, session_id), reg.metadata),
          exc |-> NoExc, value |-> TRUE]
    ELSE [reg |-> reg, exc |-> NoExc, value |-> FALSE]

\* A delete that reports success and removes only the metadata entry.
delete_session_keeps_dataset(reg, session_id) ==
    IF session_id \in DOMAIN reg.sessions
    THEN [reg |-> Registry(reg.sessions, Del(reg.metadata, session_id)),
          exc |-> NoExc, value |-> TRUE]
    ELSE [reg |-> reg, exc |-> NoExc, value |-> FALSE]

\* DataService.delete_session: del of both entries; the second del raises
\* KeyError, after the first has been done, if the metadata entry is missing.
delete_session(reg, session_id) ==
    IF session_id \in DOMAIN reg.sessions
    THEN IF session_id \in DOMAIN reg.metadata
         THEN [reg |-> Registry(Del(reg.sessions, session_id), Del(reg.metadata, session_id)),
               exc |-> NoExc, value |-> TRUE]
         ELSE [reg |-> Registry(Del(reg.sessions, session_id), reg.metadata),
               exc |-> Exc("KeyError", <<session_id>>), value |-> FALSE]
    ELSE [reg |-> reg, exc |-> NoExc, value |-> FALSE]

----------------------------------------------------------------------------
(* Profiling: DataService.profile_column and profile_dataframe.             *)
(*                                                                          *)
(* A column is described by what profiling reads of it: its dtype, the      *)
(* number of missing cells, and how often its present values occur: once    *)
(* values occur once, twice values twice and thrice values three times.     *)
(* lists says that the present cells of an object column hold Python lists  *)
(* (nested JSON arrays).                                                    *)
(*                                                                          *)
(* Python's round(x, n) is modelled on the exact quotient, ties to even,    *)
(* and its result is held as an integer number of units of 10^-n: a         *)
(* percentage rounded to two decimals is a number of hundredths, the        *)
(* quality score a number of tenths.                                        *)

Series == [dtype : {"float64", "object"}, nulls : 0..MaxNulls, once : 0..MaxOnce,
           twice : 0..MaxTwice, thrice : 0..MaxThrice, lists : BOOLEAN]

\* pd.api.types.is_numeric_dtype(series)
is_numeric_dtype(series) == series.dtype = "float64"
\* len(series)
Length(series) == series.nulls + series.once + 2 * series.twice + 3 * series.thrice
\* Columns pandas can hold: only an object column holds lists, and then in
\* at least one cell.
IsSeries(series) ==
    series.lists => (series.dtype = "object" /\ Length(series) > series.nulls)

\* series.nunique(): the number of distinct present values.  It hashes the
\* cells, and raises TypeError on a cell that holds a list.
nunique(series) ==
    IF series.lists
    THEN [exc |-> Exc("TypeError", <<"unhashable type: 'list'">>), value |-> 0]
    ELSE [exc |-> NoExc, value |-> series.once + series.twice + series.thrice]

\* series.value_counts(): the counts of the present values, largest first.
value_counts(series) ==
    [i \in 1..(series.thrice + series.twice + series.once) |->
        IF i <= series.thrice THEN 3
        ELSE IF i <= series.thrice + series.twice THEN 2 ELSE 1]

\* .head(n)
FirstN(seq, n) == SubSeq(seq, 1, IF Len(seq) < n THEN Len(seq) ELSE n)

RECURSIVE Sum(_)
Sum(seq) == IF seq = <<>> THEN 0 ELSE Head(seq) + Sum(Tail(seq))

\* round(num / den * 10^-k, ...) as a number of units: the integer nearest
\* to num / den, ties to the even one (num >= 0, den > 0).
RoundHalfEven(num, den) ==
    LET q == num \div den
        r == num % den
    IN  IF 2 * r < den THEN q
        ELSE IF 2 * r > den THEN q + 1
        ELSE IF q % 2 = 0 THEN q ELSE q + 1

\* Line 104: a numeric column gets top values when it has fewer distinct
\* values than this.
low_cardinality == 20
\* Line 105: value_counts().head(10)
top_values_limit == 10
\* Line 142: df.head(5)
sample_limit == 5

NoTopValues == [present |-> FALSE, entries |-> <<>>]

\* Lines 105-109: the entries of top_values, percentages in hundredths.
TopValues(series) ==
    LET counts == FirstN(value_counts(series), top_values_limit)
    IN  [present |-> TRUE,
         entries |-> [i \in 1..Len(counts) |->
                        [count |-> counts[i],
                         percentage |-> RoundHalfEven(counts[i] * 10000, Length(series))]]]

\* ColumnProfile (schemas.py): name is a str field, which rejects an integer
\* column label.
ColumnProfile(name, dtype, non_null_count, null_count, null_percentage, unique_count) ==
    [name |-> name, dtype |-> dtype, non_null_count |-> non_null_count,
     null_count |-> null_count, null_percentage |-> null_percentage,
     unique_count |-> unique_count, stats |-> FALSE, top_values |-> NoTopValues]

\* DataService.profile_column.  name is the type of the column label.  stats
\* says whether the numeric statistics (mean ... q75) are set.
profile_column(series, name) ==
    LET total == Length(series)
        null_count == series.nulls
        non_null == total - null_count
        unique == nunique(series)
        profile == ColumnProfile(name, series.dtype, non_null, null_count,
                                 IF total > 0 THEN RoundHalfEven(null_count * 10000, total) ELSE 0,
                                 unique.value)
    IN  IF unique.exc # NoExc THEN [exc |-> unique.exc, value |-> profile]
        ELSE IF name # "str"
        THEN [exc |-> Exc("ValidationError", <<"validation error for ColumnProfile">>),
              value |-> profile]
        ELSE [exc |-> NoExc,
              value |-> [profile EXCEPT
                  !.stats = is_numeric_dtype(series) /\ non_null > 0,
                  !.top_values =
                      IF ~is_numeric_dtype(series) \/ unique.value < low_cardinality
                      THEN TopValues(series) ELSE NoTopValues]]

\* What profiling reads of a dataset: the type of its column labels and its
\* columns.  The frames of the registry have a numeric column of one present
\* cell and, with HasObj, an object column of one list.
Labels(df) == df.labels
Columns(df) ==
    IF "cols" \in DOMAIN df THEN df.cols
    ELSE <<[dtype |-> "float64", nulls |-> 0, once |-> 1, twice |-> 0, thrice |-> 0,
            lists |-> FALSE]>>
         \o (IF HasObj(df)
             THEN <<[dtype |-> "object", nulls |-> 0, once |-> 1, twice |-> 0, thrice |-> 0,
                     lists |-> TRUE]>>
             ELSE <<>>)

\* Lines 132-139: the warnings of one column profile, in the order of the code.
Warnings(col, row_count) ==
    (IF col.null_percentage > 5000 THEN <<"missing values">> ELSE <<>>)
    \o (IF col.unique_count = 1 THEN <<"only one unique value">> ELSE <<>>)
    \o (IF col.unique_count = row_count /\ col.dtype = "object"
        THEN <<"might be an ID column">> ELSE <<>>)

RECURSIVE Concat(_)
Concat(seqs) == IF seqs = <<>> THEN <<>> ELSE Head(seqs) \o Concat(Tail(seqs))

\* DataService.profile_dataframe.  quality_score is in tenths.  The memory
\* usage and the cells of the sample rows are left out.
profile_dataframe(df, session_id, filename, file_type) ==
    LET cols == Columns(df)
        profiled == [i \in 1..Len(cols) |-> profile_column(cols[i], Labels(df))]
        failed == {i \in 1..Len(cols) : profiled[i].exc # NoExc}
        row_count == IF cols = <<>> THEN 0 ELSE Length(cols[1])
        total_cells == row_count * Len(cols)
        null_cells == Sum([i \in 1..Len(cols) |-> cols[i].nulls])
        columns == [i \in 1..Len(cols) |-> profiled[i].value]
        quality_score == IF total_cells > 0
                         THEN RoundHalfEven((total_cells - null_cells) * 1000, total_cells)
                         ELSE 1000
    IN  IF failed # {}
        THEN [exc |-> profiled[CHOOSE i \in failed : \A j \in failed : i <= j].exc,
              value |-> PyNone]
        ELSE IF quality_score < 0 \/ quality_score > 1000
        THEN [exc |-> Exc("ValidationError", <<"validation error for DataProfile">>),
              value |-> PyNone]
        ELSE [exc |-> NoExc,
              value |-> [session_id |-> session_id, filename |-> filename,
                         file_type |-> file_type,
                         row_count |-> row_count, column_count |-> Len(cols),
                         columns |-> columns,
                         sample_rows |-> IF row_count < sample_limit THEN row_count
                                         ELSE sample_limit,
                         quality_score |-> quality_score,
                         warnings |-> Concat([i \in 1..Len(cols) |->
                                                Warnings(columns[i], row_count)])]]

----------------------------------------------------------------------------
(* Execution sandbox: DataService.execute_pandas_code.                      *)
(*                                                                          *)
(* A snippet is a sequence of statements over the scope {df, pd, np},       *)
(* followed by a final statement.  The statements modelled are those that   *)
(* reach the dataset through the name df:                                   *)
(*   "set_num"     df.loc[0, 'x'] = ...     rebinds a cell of the frame     *)
(*   "set_obj"     df['tags'] = [[]]        binds the object column to a    *)
(*                                          fresh list                      *)
(*   "mutate_obj"  df['tags'][0].append(1)  changes the list the object     *)
(*                                          cell refers to, in place        *)
(* and the final statement either raises, binds no result, or binds result  *)
(* to a value of one of the types the classification tells apart.           *)
(* Reaching the registry through the interpreter's introspection (from pd   *)
(* or np to the loaded modules) is not modelled.                            *)

Stmts == {"set_num", "set_obj", "mutate_obj"}
Finals == {"raise", "nobind", "df", "series_by_pos", "series_by_label", "int",
           "records", "ints", "dict", "tuple"}

RECURSIVE SeqsUpTo(_, _)
SeqsUpTo(S, n) ==
    IF n = 0 THEN {<<>>}
    ELSE LET shorter == SeqsUpTo(S, n - 1)
         IN  shorter \cup {Append(q, x) : q \in {r \in shorter : Len(r) = n - 1}, x \in S}

Snippets == [stmts : SeqsUpTo(Stmts, MaxOps), final : Finals]

(* df.copy(): a new frame with its own label and cell arrays.  The copy of  *)
(* an object column holds the same references as the original (pandas       *)
(* copies the array of references, not the objects referred to), which      *)
(* shared records.                                                          *)
CopyFrame(df) == [labels |-> df.labels, num |-> df.num, obj |-> df.obj, shared |-> HasObj(df)]

\* The scope while the snippet runs: the frame bound to df, the registry's
\* frame it was copied from, and the exception raised so far.
Scope(local, canonical, exc) == [local |-> local, canonical |-> canonical, exc |-> exc]

RunStmt(sc, stmt) ==
    IF sc.exc # NoExc THEN sc
    ELSE CASE stmt = "set_num" ->
                Scope([sc.local EXCEPT !.num = 1 - @], sc.canonical, NoExc)
           [] stmt = "set_obj" ->
                Scope([sc.local EXCEPT !.obj = <<0>>, !.shared = FALSE], sc.canonical, NoExc)
           [] OTHER ->
                IF ~HasObj(sc.local)
                THEN Scope(sc.local, sc.canonical, Exc("KeyError", <<"'tags'">>))
                ELSE LET changed == <<1 - sc.local.obj[1]>>
                     IN  Scope([sc.local EXCEPT !.obj = changed],
                               IF sc.local.shared
                               THEN [sc.canonical EXCEPT !.obj = changed]
                               ELSE sc.canonical,
                               NoExc)

RECURSIVE RunStmts(_, _)
RunStmts(sc, stmts) ==
    IF stmts = <<>> THEN sc ELSE RunStmts(RunStmt(sc, Head(stmts)), Tail(stmts))

\* local_vars.get("result") after the final statement.
FinalValue(sc, final) ==
    CASE final = "nobind" -> PyNone
      [] final = "df" -> PyFrame(sc.local.labels)
      [] final = "series_by_pos" -> PySeries("int")
      [] final = "series_by_label" -> PySeries("str")
      [] final = "int" -> PyInt
      [] final = "records" -> PyList("dict", "str")
      [] final = "ints" -> PyList("int", "-")
      [] final = "dict" -> PyDict("str")
      [] OTHER -> PyTuple

\* exec(code, {"__builtins__": {}}, local_vars)
Exec(code, sc) ==
    LET after == RunStmts(sc, code.stmts)
    IN  IF after.exc = NoExc /\ code.final = "raise"
        THEN Scope(after.local, after.canonical, Exc("ZeroDivisionError", <<"division by zero">>))
        ELSE after

\* str(result) of a value that is none of the classified types.
Str(v) ==
    CASE v.ty = "NoneType" -> PyStr(<<"None">>)
      [] v.ty = "tuple" -> PyStr(<<"(1, 2)">>)
      [] OTHER -> PyStr(<<"<", v.ty, ">">>)

TypedResult(type, data) == [type |-> type, data |-> data]

\* A classification that lets a missing result through as a null scalar.
ClassifyNoneAsNull(result) ==
    IF result.ty = "DataFrame" THEN TypedResult("dataframe", PyList("dict", result.keys))
    ELSE IF result.ty = "Series" THEN TypedResult("series", PyDict(result.keys))
    ELSE IF result.ty \in {"int", "float", "str", "bool", "NoneType"} THEN TypedResult("scalar", result)
    ELSE IF result.ty \in {"list", "dict"} THEN TypedResult("collection", result)
    ELSE TypedResult("unknown", Str(result))

\* Lines 179-188: the isinstance chain.  to_dict(orient="records") is a list
\* of dicts keyed by the column labels; Series.to_dict() a dict keyed by the
\* index.
Classify(result) ==
    IF result.ty = "DataFrame" THEN TypedResult("dataframe", PyList("dict", result.keys))
    ELSE IF result.ty = "Series" THEN TypedResult("series", PyDict(result.keys))
    ELSE IF result.ty \in {"int", "float", "str", "bool"} THEN TypedResult("scalar", result)
    ELSE IF result.ty \in {"list", "dict"} THEN TypedResult("collection", result)
    ELSE TypedResult("unknown", Str(result))

NoResult == TypedResult("none", PyNone)

\* DataService.execute_pandas_code.  reg is the registry after the call, exc
\* the exception the call raises, inner the exception raised inside exec.
execute_pandas_code(reg, session_id, code) ==
    LET df == get_session(reg, session_id)
    IN  IF ~df.present
        THEN [reg |-> reg, exc |-> Exc("ValueError", <<"Session not found: ", session_id>>),
              inner |-> NoExc, value |-> NoResult]
        ELSE LET sc == Exec(code, Scope(CopyFrame(df.value), df.value, NoExc))
                 after == Registry(Put(reg.sessions, session_id, sc.canonical), reg.metadata)
             IN  IF sc.exc # NoExc
                 THEN [reg |-> after,
                       exc |-> Exc("RuntimeError", <<"Code execution failed: ">> \o sc.exc.msg),
                       inner |-> sc.exc, value |-> NoResult]
                 ELSE [reg |-> after, exc |-> NoExc, inner |-> NoExc,
                       value |-> Classify(FinalValue(sc, code.final))]

----------------------------------------------------------------------------
(* The model's reply.  The parsed reply is a JSON object with the optional  *)
(* keys answer, code and chart.                                             *)

\* schemas.py: class ChartType
ChartType == {"line", "bar", "area", "scatter", "pie", "histogram", "heatmap"}

\* The value of the key answer: missing, not a string (null, a number), or a
\* string, which may be empty.
Answers == {[k |-> "missing", text |-> <<>>], [k |-> "nonstr", text |-> <<>>],
            [k |-> "str", text |-> <<>>], [k |-> "str", text |-> <<"The mean is 5.">>]}

NoSnippet == [stmts |-> <<>>, final |-> "nobind"]
NoCode == [present |-> FALSE, snippet |-> NoSnippet]
Code(snippet) == [present |-> TRUE, snippet |-> snippet]
CodeFields == {NoCode} \cup {Code(c) : c \in Snippets}

(* The value of the key chart: missing (or null), a value that is not an    *)
(* object, or an object whose key type is missing ("<missing>"), a chart    *)
(* kind, or another string, and whose other keys (title, data, x_key,       *)
(* y_keys, config) pass or fail ChartData's validation.                     *)
CandidateTypes == {"<missing>", "heatmap", "donut"}
NoCandidate == [shape |-> "missing", type |-> "<missing>", rest_ok |-> TRUE]
ChartCandidates ==
    {NoCandidate, [shape |-> "notdict", type |-> "<missing>", rest_ok |-> TRUE]}
    \cup [shape : {"dict"}, type : CandidateTypes, rest_ok : BOOLEAN]

(* The payloads tried: every answer with every code field and no chart,    *)
(* and every answer with every chart candidate and no code, a snippet that  *)
(* raises or a snippet that yields records (the chart is built after the    *)
(* code has run, from the chart candidate alone).                           *)
ChartedCodeFields ==
    {NoCode, Code([stmts |-> <<>>, final |-> "raise"]), Code([stmts |-> <<>>, final |-> "records"])}
Payloads ==
    [answer : Answers, code : CodeFields, chart : {NoCandidate}]
    \cup [answer : Answers, code : ChartedCodeFields, chart : ChartCandidates]

(* The reply text is a sequence of tokens:                                  *)
(*   "fence"   a line of three backquotes, with or without the word json    *)
(*   "prose"   text that is no JSON value and holds no brace                 *)
(*   "braces"  text that is no JSON value and holds { ... }                 *)
(*   "val"     a JSON value that is no object and holds no brace: 42, [1]   *)
(*   "obj"     a JSON object, whose content is the token's payload          *)
(* White space around tokens, which strip() and the \n? of the patterns     *)
(* remove, is left out.                                                     *)
PlainPayload == [answer |-> [k |-> "str", text |-> <<"The mean is 5.">>],
                 code |-> NoCode, chart |-> NoCandidate]
Token(t, p) == [t |-> t, p |-> p]
Obj(p) == Token("obj", p)

\* The object used where the reply's layout varies: it has code and a chart.
LayoutPayload ==
    [answer |-> [k |-> "str", text |-> <<"The mean is 5.">>],
     code |-> Code([stmts |-> <<>>, final |-> "records"]),
     chart |-> [shape |-> "dict", type |-> "heatmap", rest_ok |-> TRUE]]
LayoutTokens ==
    {Token(t, PlainPayload) : t \in {"fence", "prose", "braces", "val"}} \cup {Obj(LayoutPayload)}

\* Every layout of up to MaxReplyLen tokens, and every payload as a bare object.
ReplyTexts ==
    (SeqsUpTo(LayoutTokens, MaxReplyLen) \ {<<>>}) \cup {<<Obj(p)>> : p \in Payloads}

\* The text itself, for the places that copy it.
Render(text) == [i \in 1..Len(text) |-> text[i].t]

----------------------------------------------------------------------------
(* AIService._parse_response                                                *)

\* Lines 84-86: both re.sub calls, made when the text starts with a fence.
StripFences(text) ==
    IF Len(text) > 0 /\ text[1].t = "fence"
    THEN LET rest == Tail(text)
         IN  IF Len(rest) > 0 /\ rest[Len(rest)].t = "fence"
             THEN SubSeq(rest, 1, Len(rest) - 1)
             ELSE rest
    ELSE text

\* json.loads: the text must be exactly one JSON value.
Parsed(kind, p) == [kind |-> kind, p |-> p]
JsonLoads(text) ==
    IF Len(text) = 1 /\ text[1].t = "obj" THEN [ok |-> TRUE, value |-> Parsed("dict", text[1].p)]
    ELSE IF Len(text) = 1 /\ text[1].t = "val" THEN [ok |-> TRUE, value |-> Parsed("other", PlainPayload)]
    ELSE [ok |-> FALSE, value |-> Parsed("other", PlainPayload)]

\* re.search(r'\{[\s\S]*\}', text): from the first { to the last }.
SearchBraces(text) ==
    LET at == {i \in 1..Len(text) : text[i].t \in {"obj", "braces"}}
    IN  IF at = {} THEN [found |-> FALSE, group |-> <<>>]
        ELSE LET lo == CHOOSE i \in at : \A j \in at : i <= j
                 hi == CHOOSE i \in at : \A j \in at : j <= i
             IN  [found |-> TRUE, group |-> SubSeq(text, lo, hi)]

\* Lines 99-104: the whole reply as the answer.
BasicResponse(response_text) ==
    Parsed("dict", [answer |-> [k |-> "str", text |-> Render(response_text)],
                    code |-> NoCode, chart |-> NoCandidate])

parse_response(response_text) ==
    LET text == StripFences(response_text)
        whole == JsonLoads(text)
        match == SearchBraces(text)
        inner == JsonLoads(match.group)
    IN  IF whole.ok THEN whole.value
        ELSE IF match.found /\ inner.ok THEN inner.value
        ELSE BasicResponse(response_text)

----------------------------------------------------------------------------
(* AIService.query                                                          *)

NoChart == [present |-> FALSE, type |-> "-"]
Chart(type) == [present |-> TRUE, type |-> type]

\* schemas.py: class QueryResponse, as constructed (before validation).
QueryResponse(success, answer, data, chart, code, execution_time_ms) ==
    [success |-> success, answer |-> answer, data |-> data, chart |-> chart,
     code |-> code, execution_time_ms |-> execution_time_ms]
Text(t) == [k |-> "str", text |-> t]

\* The model's validation of the constructed fields: answer is a str, data
\* is None or a list of dicts with str keys.
Validates(resp) ==
    /\ resp.answer.k = "str"
    /\ \/ resp.data = PyNone
       \/ resp.data.ty = "list" /\ resp.data.elem = "dict" /\ resp.data.keys = "str"

\* A not-found result that does not name the session.
NotFoundResponseAnonymous(session_id) ==
    QueryResponse(FALSE, Text(<<"Session not found. Please upload a file first.">>),
                  PyNone, NoChart, NoCode, 0)

\* Lines 113-117
NotFoundResponse(session_id) ==
    QueryResponse(FALSE, Text(<<"Session not found: ", session_id, ". Please upload a file first.">>),
                  PyNone, NoChart, NoCode, 0)

\* Lines 181-185
ServiceErrorResponse(msg, elapsed) ==
    QueryResponse(FALSE, Text(<<"AI service error: ">> \o msg), PyNone, NoChart, NoCode, elapsed)

\* Lines 186-191
UnexpectedErrorResponse(msg, elapsed) ==
    QueryResponse(FALSE, Text(<<"Unexpected error: ">> \o msg), PyNone, NoChart, NoCode, elapsed)

\* Lines 120-125: _build_system_prompt joins the column labels with
\* ', '.join(columns), which raises TypeError on a label that is not a str.
BuildPrompts(df, user_query) ==
    IF df.labels # "str"
    THEN Exc("TypeError", <<"sequence item 0: expected str instance, int found">>)
    ELSE NoExc

\* What the model client call (lines 129-138) produces: a reply text, a
\* raised anthropic.APIError, or a message whose content[0].text fails.
ModelOutcome(kind, text) == [kind |-> kind, text |-> text]
ModelOutcomes ==
    {ModelOutcome("api_error", <<>>), ModelOutcome("no_text", <<>>)}
    \cup {ModelOutcome("text", r) : r \in ReplyTexts}

\* Lines 146-149: the result data taken from the sandbox's typed result.
ResultData(exec_result) ==
    IF exec_result.type = "dataframe" THEN exec_result.data
    ELSE IF exec_result.type \in {"series", "collection"}
    THEN IF exec_result.data.ty = "list" THEN exec_result.data
         ELSE PyList(exec_result.data.ty, exec_result.data.keys)
    ELSE PyNone

\* Line 151: parsed["answer"] += f"\n\n(warning sign) Code execution note: {str(e)}"
AppendCaveat(answer, e) ==
    IF answer.k = "missing" THEN [exc |-> Exc("KeyError", <<"'answer'">>), answer |-> answer]
    ELSE IF answer.k = "nonstr"
    THEN [exc |-> Exc("TypeError", <<"unsupported operand type(s) for +=">>), answer |-> answer]
    ELSE [exc |-> NoExc,
          answer |-> Text(answer.text \o <<"\n\nCode execution note: ">> \o e.msg)]

\* What a handler got from its collaborators: the kind of the model call's
\* outcome, the parsed reply, the code handed to the sandbox, the exception
\* raised inside the snippet, and the exception and value of the sandbox call.
Trace(model, parsed, code, inner, exc, value) ==
    [model |-> model, parsed |-> parsed, code |-> code, inner |-> inner, exc |-> exc,
     value |-> value]
NoParsed == Parsed("none", PlainPayload)
NoTrace == Trace("none", NoParsed, NoCode, NoExc, NoExc, NoResult)
ModelTrace(model, parsed) == Trace(model, parsed, NoCode, NoExc, NoExc, NoResult)
SandboxTrace(model, parsed, code, ex) == Trace(model, parsed, code, ex.inner, ex.exc, ex.value)

\* Lines 141-151: run the code, if any.  exc is an exception that leaves the
\* block; ex is the outcome of the sandbox call.
CodeStep(reg, session_id, p) ==
    IF ~p.code.present
    THEN [reg |-> reg, exc |-> NoExc, answer |-> p.answer, data |-> PyNone,
          ex |-> [reg |-> reg, exc |-> NoExc, inner |-> NoExc, value |-> NoResult]]
    ELSE LET ex == execute_pandas_code(reg, session_id, p.code.snippet)
             noted == AppendCaveat(p.answer, ex.exc)
         IN  IF ex.exc = NoExc
             THEN [reg |-> ex.reg, exc |-> NoExc, answer |-> p.answer,
                   data |-> ResultData(ex.value), ex |-> ex]
             ELSE [reg |-> ex.reg, exc |-> noted.exc, answer |-> noted.answer,
                   data |-> PyNone, ex |-> ex]

\* Lines 153-167: ChartType(chart_info.get("type", "bar")) and ChartData's
\* validation, any exception dropping the chart.
ChartStep(cand) ==
    IF cand.shape = "missing" THEN NoChart
    ELSE IF cand.shape = "notdict" THEN NoChart
    ELSE LET type == IF cand.type = "<missing>" THEN "bar" ELSE cand.type
         IN  IF type \in ChartType /\ cand.rest_ok THEN Chart(type) ELSE NoChart

\* Line 173: parsed.get("answer", "Analysis complete.")
AnswerOrDefault(answer) ==
    IF answer.k = "missing" THEN Text(<<"Analysis complete.">>) ELSE answer

\* Lines 127-191, from the return of the model call on.
QueryAfterCall(reg, session_id, include_code, outcome, elapsed) ==
    IF outcome.kind = "api_error"
    THEN [reg |-> reg, trace |-> ModelTrace("api_error", NoParsed),
          resp |-> ServiceErrorResponse(<<"overloaded">>, elapsed)]
    ELSE IF outcome.kind = "no_text"
    THEN [reg |-> reg, trace |-> ModelTrace("no_text", NoParsed),
          resp |-> UnexpectedErrorResponse(<<"list index out of range">>, elapsed)]
    ELSE LET parsed == parse_response(outcome.text)
         IN  IF parsed.kind # "dict"
             THEN [reg |-> reg, trace |-> ModelTrace("text", parsed),
                   resp |-> UnexpectedErrorResponse(<<"object has no attribute 'get'">>, elapsed)]
             ELSE LET cs == CodeStep(reg, session_id, parsed.p)
                      tr == SandboxTrace("text", parsed, parsed.p.code, cs.ex)
                      built == QueryResponse(TRUE, AnswerOrDefault(cs.answer), cs.data,
                                             ChartStep(parsed.p.chart),
                                             IF include_code THEN parsed.p.code ELSE NoCode,
                                             elapsed)
                  IN  IF cs.exc # NoExc
                      THEN [reg |-> cs.reg, trace |-> tr,
                            resp |-> UnexpectedErrorResponse(cs.exc.msg, elapsed)]
                      ELSE IF ~Validates(built)
                      THEN [reg |-> cs.reg, trace |-> tr,
                            resp |-> UnexpectedErrorResponse(<<"validation error for QueryResponse">>, elapsed)]
                      ELSE [reg |-> cs.reg, trace |-> tr, resp |-> built]

----------------------------------------------------------------------------
(* State and handlers.                                                      *)

Reg == Registry(sessions, metadata)

\* The outcome of a handler: the exception that left it (NoExc if none), the
\* HTTP status of a route's reply (0 for a service call) and what it returned.
Outcome(op, sid, exc, status, value) ==
    [op |-> op, sid |-> sid, exc |-> exc, status |-> status, value |-> value]
NoOutcome == Outcome("none", "", NoExc, 0, PyNone)
NoPending == [sid |-> "", include_code |-> FALSE]
NoArg == [labels |-> "str", cols |-> <<>>]

Init ==
    /\ sessions = << >>
    /\ metadata = << >>
    /\ pc = "idle"
    /\ pending = NoPending
    /\ ret = NoOutcome
    /\ deleted = {}
    /\ trace = NoTrace
    /\ arg = NoArg

Finish(reg, outcome, tr) ==
    /\ sessions' = reg.sessions
    /\ metadata' = reg.metadata
    /\ pc' = "done"
    /\ pending' = NoPending
    /\ ret' = outcome
    /\ trace' = tr
    /\ arg' = arg

\* routes.upload_file.  session_id is the uuid4 drawn at line 66.  The file
\* written to the upload directory, and its removal, are not part of the state.
UploadFile(session_id, filename, size_mb, content) ==
    /\ pc = "idle"
    /\ DecodesTo(detect_file_type(filename).value, content)
    /\ LET ext == Suffix(filename)
           file_type == detect_file_type(filename)
           df == load_file(content, file_type.value)
           md == [filename |-> filename, file_type |-> file_type.value]
           stored == store_session(Reg, session_id, df.value, md)
           profile == profile_dataframe(df.value, session_id, filename, file_type.value)
       IN  IF ext \notin allowed_extensions \/ size_mb > max_file_size_mb
           THEN Finish(Reg, Outcome("upload", session_id, NoExc, 400, PyNone), NoTrace) /\ deleted' = deleted
           ELSE IF file_type.exc # NoExc \/ df.exc # NoExc
           THEN Finish(Reg, Outcome("upload", session_id, NoExc, 500, PyNone), NoTrace) /\ deleted' = deleted
           ELSE IF profile.exc # NoExc
           THEN Finish(stored, Outcome("upload", session_id, NoExc, 500, PyNone), NoTrace)
                /\ deleted' = deleted \ {session_id}
           ELSE Finish(stored, Outcome("upload", session_id, NoExc, 200, profile.value), NoTrace)
                /\ deleted' = deleted \ {session_id}

\* routes.get_profile
GetProfile(session_id) ==
    /\ pc = "idle"
    /\ deleted' = deleted
    /\ LET df == get_session(Reg, session_id)
           md == get_metadata(Reg, session_id)
       IN  IF ~df.present \/ ~md.present
           THEN Finish(Reg, Outcome("get_profile", session_id, NoExc, 404, PyNone), NoTrace)
           ELSE LET profile == profile_dataframe(df.value, session_id, md.value.filename, md.value.file_type)
                IN  IF profile.exc # NoExc
                    THEN Finish(Reg, Outcome("get_profile", session_id, profile.exc, 500, PyNone), NoTrace)
                    ELSE Finish(Reg, Outcome("get_profile", session_id, NoExc, 200, profile.value), NoTrace)

\* routes.delete_session, which calls DataService.delete_session.  value is
\* what the service call returned.
DeleteSession(session_id) ==
    /\ pc = "idle"
    /\ LET r == delete_session(Reg, session_id)
       IN  /\ Finish(r.reg, Outcome("delete", session_id, r.exc,
                                    IF r.exc # NoExc THEN 500 ELSE IF r.value THEN 200 ELSE 404,
                                    r.value), NoTrace)
           /\ deleted' = IF r.value THEN deleted \cup {session_id} ELSE deleted

\* DataService.execute_pandas_code, called on its own.
ExecutePandasCode(session_id, code) ==
    /\ pc = "idle"
    /\ deleted' = deleted
    /\ LET r == execute_pandas_code(Reg, session_id, code)
       IN  Finish(r.reg, Outcome("execute", session_id, r.exc, 0, r.value),
                  SandboxTrace("none", NoParsed, Code(code), r))

\* AIService.query up to the model call (lines 108-129).
QueryStart(session_id, user_query, include_code) ==
    /\ pc = "idle"
    /\ deleted' = deleted
    /\ LET df == get_session(Reg, session_id)
       IN  IF ~df.present
           THEN Finish(Reg, Outcome("query", session_id, NoExc, 0, NotFoundResponse(session_id)), NoTrace)
           ELSE IF BuildPrompts(df.value, user_query) # NoExc
           THEN Finish(Reg, Outcome("query", session_id, BuildPrompts(df.value, user_query), 0, PyNone), NoTrace)
           ELSE /\ pc' = "calling"
                /\ pending' = [sid |-> session_id, include_code |-> include_code]
                /\ trace' = ModelTrace("pending", NoParsed)
                /\ UNCHANGED <<sessions, metadata, ret, arg>>

\* AIService.query from the return of the model call (lines 129-191).
QueryComplete(outcome, elapsed) ==
    /\ pc = "calling"
    /\ deleted' = deleted
    /\ \E r \in {QueryAfterCall(Reg, pending.sid, pending.include_code, outcome, elapsed)} :
          Finish(r.reg, Outcome("query", pending.sid, NoExc, 0, r.resp), r.trace)

\* The handler's reply is sent; the event loop takes the next request.
Return ==
    /\ pc = "done"
    /\ pc' = "idle"
    /\ ret' = NoOutcome
    /\ trace' = NoTrace
    /\ arg' = NoArg
    /\ UNCHANGED <<sessions, metadata, pending, deleted>>

Next ==
    \/ \E s \in SessionIds, f \in Filenames, z \in SizesMb, c \in Contents : UploadFile(s, f, z, c)
    \/ \E s \in SessionIds : GetProfile(s)
    \/ \E s \in SessionIds : DeleteSession(s)
    \/ \E s \in SessionIds, c \in Snippets : ExecutePandasCode(s, c)
    \/ \E s \in SessionIds, q \in Questions, i \in BOOLEAN : QueryStart(s, q, i)
    \/ \E o \in ModelOutcomes, e \in ElapsedMs : QueryComplete(o, e)
    \/ Return

Spec == Init /\ [][Next]_vars

----------------------------------------------------------------------------
(* The profiling functions called on their own, on every column and every   *)
(* dataset within the bounds.  A dataset is a sequence of columns of one    *)
(* length; arg keeps what the call was given.                               *)

ProfiledSeries == {series \in Series : IsSeries(series)}
\* The datasets of n rows: up to MaxCols columns of length n.
FramesOfRows(n) ==
    [labels : {"str", "int"},
     cols : SeqsUpTo({series \in ProfiledSeries : Length(series) = n}, MaxCols)]
ProfiledFrames == UNION {FramesOfRows(n) : n \in 0..MaxRows}

\* DataService.profile_column(series, name), for any column and label type.
ProfileColumn ==
    /\ pc = "idle"
    /\ pc' = "done"
    /\ \E series \in ProfiledSeries, name \in {"str", "int"} :
          /\ arg' = [labels |-> name, cols |-> <<series>>]
          /\ \E r \in {profile_column(series, name)} :
                ret' = Outcome("profile_column", "", r.exc, 0, r.value)
    /\ UNCHANGED <<sessions, metadata, pending, deleted, trace>>

\* DataService.profile_dataframe(df, session_id, filename, file_type), for
\* any dataset.
ProfileDataframe(session_id, filename) ==
    /\ pc = "idle"
    /\ pc' = "done"
    /\ \E df \in ProfiledFrames :
          /\ arg' = df
          /\ \E r \in {profile_dataframe(df, session_id, filename,
                                          detect_file_type(filename).value)} :
                ret' = Outcome("profile_dataframe", session_id, r.exc, 0, r.value)
    /\ UNCHANGED <<sessions, metadata, pending, deleted, trace>>

NextProfile ==
    \/ ProfileColumn
    \/ ProfileDataframe("s1", "events.json")
    \/ Return

SpecProfile == Init /\ [][NextProfile]_vars

----------------------------------------------------------------------------
(* The model call as a suspension point.  AIService.query is a coroutine    *)
(* and the route awaits it, but the client it calls at line 129 is the      *)
(* synchronous one: under one event loop the call does not yield, which is  *)
(* the scheduling of Spec.  SpecConcurrent is the scheduling that section 5 *)
(* of the specification takes for granted, and that the code has whenever   *)
(* the call does yield (an asynchronous client, or requests served by more  *)
(* than one thread over the class-level registry): while a query waits for  *)
(* the model, routes.delete_session may serve another request.              *)

DeleteSessionDuringCall(session_id) ==
    /\ pc = "calling"
    /\ \E r \in {delete_session(Reg, session_id)} :
          /\ sessions' = r.reg.sessions
          /\ metadata' = r.reg.metadata
          /\ deleted' = IF r.value THEN deleted \cup {session_id} ELSE deleted
    /\ UNCHANGED <<pc, pending, ret, trace, arg>>

NextConcurrent ==
    \/ Next
    \/ \E s \in SessionIds : DeleteSessionDuringCall(s)

SpecConcurrent == Init /\ [][NextConcurrent]_vars

----------------------------------------------------------------------------
(* Properties.  In a state with pc = "done", ret is the outcome of the      *)
(* handler that has just run and trace what it got from the model and the   *)
(* sandbox; the registry is as the handler left it.                         *)

Resp == ret.value
SandboxRan == trace.code.present
Caveat(e) == <<"\n\nCode execution note: ">> \o e.msg

(* C1: execute(s, code) leaves the dataset and metadata of s and of every   *)
(* other session unchanged, whether the snippet completes or raises; when   *)
(* the snippet raises, the call raises the execution-failed error carrying  *)
(* the snippet's message.                                                   *)
C1_ExecuteLeavesRegistryUnchanged ==
    [][(pc' = "done" /\ trace'.code.present)
        => /\ sessions' = sessions
           /\ metadata' = metadata
           /\ trace'.inner # NoExc
                => trace'.exc = Exc("RuntimeError", <<"Code execution failed: ">> \o trace'.inner.msg)]_vars

(* C2: in every reachable state the ids that have a dataset are the ids     *)
(* that have metadata.                                                      *)
C2_DatasetAndMetadataTogether == DOMAIN sessions = DOMAIN metadata

\* A session has just been deleted while another one is still stored.
C2_Witness ==
    /\ ret.op = "delete" /\ ret.status = 200
    /\ ret.sid \notin DOMAIN sessions
    /\ DOMAIN sessions # {}

(* C3: once s has been deleted, and until it is stored again, get_profile   *)
(* of s reports not-found and answer for s reports session-not-found; a     *)
(* delete of an id with no entry returns false, raises nothing and leaves   *)
(* the registry unchanged.                                                  *)
C3_DeletedStaysNotFound ==
    [][/\ (ret'.op = "get_profile" /\ ret'.sid \in deleted')
            => ret'.exc = NoExc /\ ret'.status = 404
       /\ (ret'.op = "query" /\ ret'.sid \in deleted')
            => /\ ret'.exc = NoExc
               /\ ret'.value.success = FALSE
               /\ ret'.value.answer.text[1] = "Session not found: "
       /\ (pc = "idle" /\ ret'.op = "delete" /\ ret'.sid \notin DOMAIN sessions)
            => /\ ret'.exc = NoExc /\ ret'.value = FALSE
               /\ sessions' = sessions /\ metadata' = metadata]_vars

\* answer has just run for a session that was deleted and not stored since.
C3_Witness ==
    /\ ret.op = "query" /\ ret.sid \in deleted
    /\ \E s \in SessionIds : s \in DOMAIN sessions

(* C4: answer never raises: whatever the registry, the question, the model  *)
(* call's outcome and the failures of its steps, it returns a QueryResult,  *)
(* with success = false and the error text when an error occurred.          *)
C4_AnswerNeverRaises ==
    ret.op = "query"
        => /\ ret.exc = NoExc
           /\ Resp.success \/ ~IsEmptyText(Resp.answer.text)

(* C5: whenever the session exists and the model call returned a reply      *)
(* text, answer returns success = true and a non-empty answer, whatever     *)
(* the text is.                                                             *)
C5_EveryReplyTextIsAnswered ==
    (ret.op = "query" /\ trace.model = "text")
        => /\ ret.exc = NoExc
           /\ Resp.success
           /\ ~IsEmptyText(Resp.answer.text)

(* C6: whenever the parsed reply has code and the sandbox fails on it,      *)
(* answer returns success = true, the parsed answer with the caveat         *)
(* appended, and no data.                                                   *)
C6_SandboxFailureIsACaveat ==
    (ret.op = "query" /\ SandboxRan /\ trace.exc # NoExc)
        => /\ ret.exc = NoExc
           /\ Resp.success
           /\ Resp.answer.text = trace.parsed.p.answer.text \o Caveat(trace.exc)
           /\ Resp.data = PyNone

(* C7: answer for an id that is absent from the registry returns            *)
(* success = false with elapsed time 0 and an answer text that contains     *)
(* the id, calls neither the model nor the sandbox, and leaves the          *)
(* registry unchanged.                                                      *)
C7_AbsentSessionAnswer ==
    [][(pc = "idle" /\ ret'.op = "query" /\ ret'.sid \notin DOMAIN sessions)
        => /\ pc' = "done"
           /\ ret'.exc = NoExc
           /\ ret'.value.success = FALSE
           /\ ret'.value.execution_time_ms = 0
           /\ Contains(ret'.value.answer.text, ret'.sid)
           /\ trace'.model = "none" /\ ~trace'.code.present
           /\ sessions' = sessions /\ metadata' = metadata]_vars

\* answer has just run for an absent id while another session is stored.
C7_Witness ==
    /\ pc = "done" /\ ret.op = "query"
    /\ ret.sid \notin DOMAIN sessions
    /\ DOMAIN sessions # {}

(* C8: when the parsed reply has a chart candidate whose type is missing    *)
(* or no chart kind, or that fails validation otherwise, the result has no  *)
(* chart and the query succeeds.  Stated for replies that have a string     *)
(* answer and no code, so that nothing but the chart is at stake.           *)
C8_InvalidChartIsDropped ==
    LET cand == trace.parsed.p.chart
    IN  (/\ ret.op = "query" /\ trace.model = "text" /\ trace.parsed.kind = "dict"
         /\ trace.parsed.p.answer.k = "str" /\ ~trace.parsed.p.code.present
         /\ cand.shape # "missing"
         /\ cand.shape = "notdict" \/ cand.type \notin ChartType \/ ~cand.rest_ok)
        => /\ ret.exc = NoExc
           /\ Resp.success
           /\ ~Resp.chart.present

(* C9: when the sandbox runs the reply's code successfully, the result's    *)
(* data is the row records for a tabular result, the kind's data (in a      *)
(* one-element list unless it is a list) for a keyed-sequence or a generic  *)
(* collection, and absent for a scalar or unknown result; the query returns *)
(* success = true.  Stated for replies that have a string answer and no     *)
(* chart.                                                                   *)
C9_DataByResultKind ==
    LET r == trace.value
        expected ==
            CASE r.type = "dataframe" -> r.data
              [] r.type \in {"series", "collection"} ->
                    IF r.data.ty = "list" THEN r.data ELSE PyList(r.data.ty, r.data.keys)
              [] OTHER -> PyNone
    IN  (/\ ret.op = "query" /\ SandboxRan /\ trace.exc = NoExc
         /\ trace.parsed.p.answer.k = "str" /\ trace.parsed.p.chart.shape = "missing")
        => /\ ret.exc = NoExc
           /\ Resp.success
           /\ Resp.data = expected

(* C10 as claimed: execute on an existing session with a snippet that       *)
(* completes without binding result does not raise and returns a typed      *)
(* result whose data is null, of kind scalar or unknown.                    *)
C10_UnboundResultIsNull ==
    (/\ ret.op = "execute" /\ ret.sid \in DOMAIN sessions
     /\ trace.code.snippet.final = "nobind" /\ trace.inner = NoExc)
        => /\ ret.exc = NoExc
           /\ Resp.type \in {"scalar", "unknown"}
           /\ Resp.data = PyNone

(* C10 as amended: execute on an existing session with a snippet that       *)
(* completes without binding result does not raise and returns the typed    *)
(* result of kind unknown whose data is the text "None".                    *)
C10_UnboundResultIsTextNone ==
    (/\ ret.op = "execute" /\ ret.sid \in DOMAIN sessions
     /\ trace.code.snippet.final = "nobind" /\ trace.inner = NoExc)
        => /\ ret.exc = NoExc
           /\ Resp = TypedResult("unknown", PyStr(<<"None">>))

\* execute has just run such a snippet, which changed the frame bound to df.
C10_Witness ==
    /\ ret.op = "execute" /\ ret.sid \in DOMAIN sessions
    /\ trace.code.snippet.final = "nobind" /\ trace.inner = NoExc
    /\ trace.code.snippet.stmts # <<>>

----------------------------------------------------------------------------
(* Properties of profiling, under SpecProfile.  In a state with pc = "done" *)
(* arg is what the profiling call was given and ret what it returned or     *)
(* raised.                                                                  *)

MissingCells == Sum([i \in 1..Len(arg.cols) |-> arg.cols[i].nulls])
TotalCells == Sum([i \in 1..Len(arg.cols) |-> Length(arg.cols[i])])
Distinct(series) == series.once + series.twice + series.thrice
Counts(entries) == [i \in 1..Len(entries) |-> entries[i].count]
Percentages(entries) == [i \in 1..Len(entries) |-> entries[i].percentage]

\* The quality score of every profile that profile_dataframe returns is in
\* [0,100], 100 with no missing cell and 0 with every cell missing.
QualityScoreOfProfile ==
    (ret.op = "profile_dataframe" /\ ret.exc = NoExc)
        => /\ Resp.quality_score \in 0..1000
           /\ MissingCells = 0 => Resp.quality_score = 1000
           /\ (TotalCells > 0 /\ MissingCells = TotalCells) => Resp.quality_score = 0

(* C11: for every dataset profile_dataframe yields a quality score in       *)
(* [0,100], which is exactly 100 when the dataset has no missing cell (a    *)
(* dataset of no cells included) and exactly 0 when every cell is missing   *)
(* and there is at least one cell.                                          *)
C11_QualityScoreOfEveryDataset ==
    ret.op = "profile_dataframe"
        => /\ ret.exc = NoExc
           /\ QualityScoreOfProfile

(* C12: for every column, the profile of profile_column has top_values if   *)
(* and only if the column is non-numeric or has fewer than 20 distinct      *)
(* values; top_values then has at most 10 entries, its counts sum to at     *)
(* most the length of the column and its percentages, each rounded to two   *)
(* decimals, sum to at most 100.                                            *)
C12_TopValues ==
    (ret.op = "profile_column" /\ ret.exc = NoExc)
        => LET series == arg.cols[1]
               top_values == Resp.top_values
           IN  /\ top_values.present
                    <=> (series.dtype # "float64" \/ Distinct(series) < 20)
               /\ top_values.present
                    => /\ Len(top_values.entries) <= 10
                       /\ Sum(Counts(top_values.entries)) <= Length(series)
                       /\ Sum(Percentages(top_values.entries)) <= 10000

----------------------------------------------------------------------------
(* Properties of a query whose session is deleted during the model call,    *)
(* under SpecConcurrent.  A query reaches the model call only for a session *)
(* that is stored, and a stored session is not in deleted: after the call,  *)
(* the session of the query is in deleted exactly when it was deleted while *)
(* the call was outstanding.                                                *)

DeletedDuringCall ==
    /\ pc = "done" /\ ret.op = "query"
    /\ trace.model = "text"
    /\ ret.sid \in deleted

SessionNotFound(session_id) == Exc("ValueError", <<"Session not found: ", session_id>>)

====
